---- MODULE Spec2Model ----
(***************************************************************************)
(* Ralph orchestrator: the per-project run loop (Orchestrator.ts), the     *)
(* agent processes it spawns (ProcessManager.ts), the verification step    *)
(* (Verifier.ts) and the catalog they mutate (StateManager.ts).            *)
(*                                                                         *)
(* The program runs on one JavaScript event loop, so one action of this    *)
(* module is the code that runs between two suspension points (an await    *)
(* on a git clone, on an agent process exit, or on the 2 s sleep), or one  *)
(* whole synchronous IPC handler (start, stop, pause, resume).             *)
(***************************************************************************)
EXTENDS Naturals, Integers, Sequences, FiniteSets, TLC

\* ------------------------------------------------------------------ bounds

\* Run loops (admitted starts) over all projects in one behaviour.
MaxRuns == 2

\* Tasks a project is created with.
MaxTasks == 2

\* Execution agents spawned in one behaviour of Spec and CapSpec.
MaxSpawns == 3

\* settings.maxTaskAttempts is drawn from 1..MaxAttemptsSetting.
MaxAttemptsSetting == 2

\* settings.maxParallelProjects is drawn from 1..MaxParallelSetting.
MaxParallelSetting == 2

\* Length of the task lists handed to getNextTask in SelSpec.
MaxSelLen == 3

\* Counters (attempts, log entries, commits, invocations) are tracked up to
\* this value and stay there: every comparison the code makes with a counter
\* is against maxTaskAttempts, which is smaller.
CounterCap == MaxAttemptsSetting + 2

Projects == {"p1", "p2"}

Runs == 1..MaxRuns

NoRun == 0

NoTask == 0

\* selResult before getNextTask was called
NotCalled == NoTask - 1

ProjectStatus == {"idle", "running", "paused", "completed", "failed"}

TaskStatus == {"backlog", "in_progress", "verifying", "done", "blocked"}

Priorities == {0, 1}

DefaultMaxParallelProjects == 3

Unlimited == 0 - 1

Bump(n) == IF n < CounterCap THEN n + 1 ELSE n

\* ------------------------------------------------------------------ state

VARIABLES
    settings,        \* StateManager state.settings
    orchCap,         \* Orchestrator.maxParallelProjects (read once, in the constructor)
    projects,        \* ids of the projects in StateManager state.projects
    status,          \* Project.status
    tasks,           \* Project.tasks, a sequence of Task records
    activeProjects,  \* Orchestrator.activeProjects: project -> run owning the entry, or NoRun
    ost,             \* one OrchestratorState object per admitted start
    runsUsed,        \* number of OrchestratorState objects created so far
    loop,            \* per run: where its runLoop coroutine is suspended, and its locals
    procs,           \* per run: the execution agent and the self-review agent it spawned
    workspace,       \* per project: whether the checkout exists on disk
    commits,         \* per project: commits made by RepoManager.commit
    invocations,     \* per project and task id: execution agents spawned (history)
    startResult,     \* what the last start call returned (history)
    capPhase,        \* admission history: rejected at the cap, then released, then admitted
    spawnsLeft,      \* execution agents the behaviour may still spawn; Unlimited in LiveSpec
    recording,       \* whether startResult and capPhase are kept in this behaviour
    gitLog,          \* per project: what the last commit, push and PR calls answered (history)
    store,           \* StateManager's state file, its save timer and the watcher's pending event
    wsFile,          \* per project: the workspace file .ralph/tasks.json, and what its last reader saw
    iter,            \* Project.maxIterations, and per run the passes through the loop of runLoop (history)
    fnInput,         \* ParseSpec, VerifySpec: the arguments of the function under check
    fnResult,        \* ParseSpec, VerifySpec: what the function returned
    repos,           \* state.repositories, Project.repositoryId, and the ids of deleted repositories (history)
    logStream,       \* per agent process: its log stream, the times it was ended, a write after its end (history)
    selTasks,        \* SelSpec: the task list handed to getNextTask
    selResult        \* SelSpec: what getNextTask returned

vars == <<settings, orchCap, projects, status, tasks, activeProjects, ost, runsUsed,
          loop, procs, workspace, commits, invocations, startResult, capPhase,
          spawnsLeft, recording, gitLog, store, wsFile,
          iter,
          fnInput,
          fnResult,
          repos,
          logStream,
          selTasks, selResult>>

selVars == <<selTasks, selResult>>

\* the variables of the specifications of single functions
envVars == <<fnInput, fnResult, repos>>

\* ------------------------------------------------------------------ tasks

NewTask(id, prio) ==
    [id |-> id, status |-> "backlog", priority |-> prio, attempts |-> 0,
     startedAt |-> FALSE, verifyingAt |-> FALSE, completedAt |-> FALSE,
     logsOk |-> 0, logsFail |-> 0]

\* index of the task with this id in a task list, 0 when there is none
FindIndex(ts, id) ==
    IF \E i \in 1..Len(ts) : ts[i].id = id
    THEN CHOOSE i \in 1..Len(ts) : ts[i].id = id /\ \A j \in 1..(i-1) : ts[j].id # id
    ELSE 0

\* { ...old, ...updates }
Merge(old, updates) ==
    [f \in DOMAIN old |-> IF f \in DOMAIN updates THEN updates[f] ELSE old[f]]

UpdateTask(tk, p, id, updates) ==
    IF p \notin projects THEN tk
    ELSE LET i == FindIndex(tk[p], id) IN
         IF i = 0 THEN tk
         ELSE [tk EXCEPT ![p][i] = Merge(@, updates)]

AddTaskLog(tk, p, id, success) ==
    IF p \notin projects THEN tk
    ELSE LET i == FindIndex(tk[p], id) IN
         IF i = 0 THEN tk
         ELSE IF success
              THEN [tk EXCEPT ![p][i].logsOk = Bump(@)]
              ELSE [tk EXCEPT ![p][i].logsFail = Bump(@)]

\* ------------------------------------------------------- task selection

\* first index whose task has the status, 0 when there is none (Array.find)
FindStatus(ts, st) ==
    IF \E i \in 1..Len(ts) : ts[i].status = st
    THEN CHOOSE i \in 1..Len(ts) : ts[i].status = st /\ \A j \in 1..(i-1) : ts[j].status # st
    ELSE 0

\* Array.filter
RECURSIVE FilterStatus(_, _)
FilterStatus(ts, st) ==
    IF ts = <<>> THEN <<>>
    ELSE IF Head(ts).status = st
         THEN <<Head(ts)>> \o FilterStatus(Tail(ts), st)
         ELSE FilterStatus(Tail(ts), st)

\* Seeded fault: an unstable sort, x goes in front of the elements it ties with.
RECURSIVE InsertBeforeEquals(_, _)
InsertBeforeEquals(sorted, x) ==
    IF sorted = <<>> THEN <<x>>
    ELSE IF Head(sorted).priority - x.priority < 0
         THEN <<Head(sorted)>> \o InsertBeforeEquals(Tail(sorted), x)
         ELSE <<x>> \o sorted

\* x goes behind every element the comparator does not put after it
RECURSIVE InsertByPriority(_, _)
InsertByPriority(sorted, x) ==
    IF sorted = <<>> THEN <<x>>
    ELSE IF Head(sorted).priority - x.priority <= 0
         THEN <<Head(sorted)>> \o InsertByPriority(Tail(sorted), x)
         ELSE <<x>> \o sorted

\* Array.sort((a, b) => a.priority - b.priority): a stable sort
RECURSIVE SortByPriority(_)
SortByPriority(ts) ==
    IF ts = <<>> THEN <<>>
    ELSE InsertByPriority(SortByPriority(SubSeq(ts, 1, Len(ts) - 1)), ts[Len(ts)])

\* the id of the task to work on, NoTask when there is none
GetNextTask(ts) ==
    LET inProgress == FindStatus(ts, "in_progress")
        verifying == FindStatus(ts, "verifying")
        backlogTasks == SortByPriority(FilterStatus(ts, "backlog"))
    IN  IF inProgress # 0 THEN ts[inProgress].id
        ELSE IF verifying # 0 THEN ts[verifying].id
        ELSE IF backlogTasks # <<>> THEN backlogTasks[1].id
        ELSE NoTask

\* ------------------------------------------------------- agent output

\* What an agent printed, as the set of the marker texts its output holds.
ExecOutputs ==
    { {}, {"TASK_COMPLETE"}, {"DONE"}, {"Task completed"}, {"TASK_BLOCKED"}, {"BLOCKED"},
      {"TASK_COMPLETE", "TASK_BLOCKED"} }

ReviewOutputs ==
    { {}, {"VERIFICATION_PASSED"}, {"VERIFICATION_FAILED"},
      {"VERIFICATION_PASSED", "VERIFICATION_FAILED"}, {"looks good"} }

ExitCodes == {0, 1}

\* String.includes: the output holds s when a printed text has s as a substring
Includes(out, s) ==
    IF s = "BLOCKED" THEN "BLOCKED" \in out \/ "TASK_BLOCKED" \in out
    ELSE s \in out

ParseProcessResult(out, procStatus) ==
    LET isComplete == Includes(out, "TASK_COMPLETE") \/ Includes(out, "DONE")
                      \/ Includes(out, "Task completed")
        isBlocked == Includes(out, "TASK_BLOCKED") \/ Includes(out, "BLOCKED")
    IN  [success |-> procStatus = "completed",
         taskComplete |-> isComplete /\ ~isBlocked,
         taskBlocked |-> isBlocked]

\* Verifier.runSelfReview, from the review agent's output on
ReviewPassed(out) ==
    IF Includes(out, "VERIFICATION_PASSED") THEN TRUE
    ELSE IF Includes(out, "VERIFICATION_FAILED") THEN FALSE
    ELSE TRUE

\* Verifier.runTests: no test suite, tests pass, tests fail
TestResults ==
    { [ran |-> FALSE, passed |-> TRUE], [ran |-> TRUE, passed |-> TRUE],
      [ran |-> TRUE, passed |-> FALSE] }

\* Seeded fault: the decision follows the review alone.
VerifyPassedReviewOnly(test, reviewPassed) ==
    reviewPassed

VerifyPassed(test, reviewPassed) ==
    (test.passed \/ ~test.ran) /\ reviewPassed

\* ------------------------------------------------------------------ init

UnusedOst == [projectId |-> "-", status |-> "unused", currentTaskId |-> NoTask,
              currentProcessId |-> NoRun]

UnusedLoop == [pc |-> "unused", proj |-> "-", task |-> NoTask, attempts |-> 0,
               w |-> NoRun, wsExisted |-> FALSE]

\* runLoop awaits the sleep: the locals of workOnTask are gone
Sleeping(l) == [UnusedLoop EXCEPT !.pc = "delay", !.proj = l.proj]

\* runLoop has returned
Returned(l) == [UnusedLoop EXCEPT !.pc = "ended", !.proj = l.proj]

NoProc == [status |-> "none", alive |-> FALSE]

UnusedProcs == [exec |-> NoProc, review |-> NoProc]

\* createTask appends: ids in insertion order, status backlog, attempts 0
InitTaskLists ==
    { [i \in 1..n |-> NewTask(i, MaxTasks - i)] : n \in 0..MaxTasks }

\* gitLog of a project in a behaviour that keeps no git history
GitOff == [commit |-> "off", basePush |-> "off", push |-> "off", pr |-> "off"]

\* gitLog of a project before any git call, in a behaviour that keeps the history
GitNone == [commit |-> "none", basePush |-> "none", push |-> "none", pr |-> "none"]

MaxRepositories == 3

RepositoryIds == 1..MaxRepositories

NoRepository == 0

\* one repository, which every project refers to; nothing created or deleted
ReposAtRest ==
    [repositories |-> {1}, repositoryId |-> [p \in Projects |-> 1], deleted |-> {}]

\* no log stream yet
NoStream == [state |-> "none", ends |-> 0, late |-> FALSE]

\* the log streams where they are not followed
LogOff == [on |-> FALSE, of |-> [r \in Runs |-> [k \in {"exec", "review"} |-> NoStream]]]

\* fnInput and fnResult where no function is under check, or before its call
NoCall == [called |-> FALSE]

\* iter in a behaviour that does not count the passes of the loop
IterOff == [on |-> FALSE, max |-> [p \in Projects |-> 0], passes |-> [r \in Runs |-> 0]]

\* .ralph/tasks.json of a project in a behaviour that does not follow the file
WsOff == [on |-> FALSE, state |-> "absent", tasks |-> <<>>, writing |-> FALSE, seen |-> "none"]

\* What the state file holds of a state: the statuses and the task lists.
Snapshot(st, tk) == [status |-> st, tasks |-> tk]

\* What it holds besides: the ids of the projects and of the repositories,
\* and the settings.
Rest == [projects |-> projects, repositories |-> repos.repositories, settings |-> settings]

DefaultMaxTaskAttempts == 3

\* defaultState: no repository, no project, the default settings
DefaultState ==
    [file |-> Snapshot([p \in Projects |-> "idle"], [p \in Projects |-> <<>>]),
     rest |-> [projects |-> {}, repositories |-> {},
               settings |-> [maxParallelProjects |-> DefaultMaxParallelProjects,
                             maxTaskAttempts |-> DefaultMaxTaskAttempts]]]

\* The state file as loadState found it at startup, no save scheduled, the
\* watcher open and no change event pending; on tells whether the file and
\* its watcher are modelled, readable whether the file can be read and
\* parsed, failed whether the last write threw (history, kept where
\* recording is on).
StoreAtStart(on, st, tk) ==
    [on |-> on, file |-> Snapshot(st, tk), rest |-> Rest, readable |-> TRUE,
     timer |-> FALSE, event |-> FALSE, watching |-> on, failed |-> FALSE]

\* Everything but the catalog, the settings and the exploration bound.
InitRest ==
    /\ orchCap = settings.maxParallelProjects
    /\ status = [p \in Projects |-> "idle"]
    /\ activeProjects = [p \in Projects |-> NoRun]
    /\ ost = [r \in Runs |-> UnusedOst]
    /\ runsUsed = 0
    /\ loop = [r \in Runs |-> UnusedLoop]
    /\ procs = [r \in Runs |-> UnusedProcs]
    /\ workspace = [p \in Projects |-> FALSE]
    /\ commits = [p \in Projects |-> 0]
    /\ invocations = [p \in Projects |-> [i \in 1..MaxTasks |-> 0]]
    /\ startResult = [proj |-> "-", ok |-> FALSE, why |-> "none"]
    /\ capPhase = "none"
    /\ selTasks = <<>>
    /\ selResult = NoTask

\* One project with 1..MaxTasks tasks; "p2" is the id of no project.
Init ==
    /\ settings \in [maxParallelProjects : {DefaultMaxParallelProjects},
                     maxTaskAttempts : 1..MaxAttemptsSetting]
    /\ projects = {"p1"}
    /\ tasks \in [Projects -> InitTaskLists]
    /\ tasks["p1"] # <<>> /\ tasks["p2"] = <<>>
    /\ spawnsLeft = MaxSpawns
    /\ recording = FALSE
    /\ gitLog = [p \in Projects |-> GitOff]
    /\ InitRest
    /\ repos = ReposAtRest
    /\ store = StoreAtStart(FALSE, status, tasks)
    /\ logStream = LogOff
    /\ fnResult = NoCall
    /\ fnInput = NoCall
    /\ iter = IterOff
    /\ wsFile = [p \in Projects |-> WsOff]

\* As Init, with one task and the git history kept.
GitInit ==
    /\ settings \in [maxParallelProjects : {DefaultMaxParallelProjects},
                     maxTaskAttempts : 1..MaxAttemptsSetting]
    /\ projects = {"p1"}
    /\ tasks = [p \in Projects |-> IF p = "p1" THEN <<NewTask(1, 0)>> ELSE <<>>]
    /\ spawnsLeft = MaxSpawns
    /\ recording = FALSE
    /\ gitLog = [p \in Projects |-> GitNone]
    /\ InitRest
    /\ repos = ReposAtRest
    /\ store = StoreAtStart(FALSE, status, tasks)
    /\ logStream = LogOff
    /\ fnResult = NoCall
    /\ fnInput = NoCall
    /\ iter = IterOff
    /\ wsFile = [p \in Projects |-> WsOff]

\* One or two projects under a cap of 1..MaxParallelSetting; "p1" has one task, "p2" none.
CapInit ==
    /\ settings \in [maxParallelProjects : 1..MaxParallelSetting, maxTaskAttempts : {1}]
    /\ projects \in { {"p1"}, {"p1", "p2"} }
    /\ tasks = [p \in Projects |-> IF p = "p1" THEN <<NewTask(1, 0)>> ELSE <<>>]
    /\ spawnsLeft = 1
    /\ recording = TRUE
    /\ gitLog = [p \in Projects |-> GitOff]
    /\ InitRest
    /\ repos = ReposAtRest
    /\ store = StoreAtStart(FALSE, status, tasks)
    /\ logStream = LogOff
    /\ fnResult = NoCall
    /\ fnInput = NoCall
    /\ iter = IterOff
    /\ wsFile = [p \in Projects |-> WsOff]

\* Two projects with 1..MaxTasks tasks each and no bound on the agents spawned.
BlockedInit ==
    /\ settings \in [maxParallelProjects : {DefaultMaxParallelProjects},
                     maxTaskAttempts : 1..MaxAttemptsSetting]
    /\ projects = Projects
    /\ tasks \in [Projects -> InitTaskLists \ {<<>>}]
    /\ spawnsLeft = Unlimited
    /\ recording = FALSE
    /\ gitLog = [p \in Projects |-> GitOff]
    /\ InitRest
    /\ repos = ReposAtRest
    /\ store = StoreAtStart(FALSE, status, tasks)
    /\ logStream = LogOff
    /\ fnResult = NoCall
    /\ fnInput = NoCall
    /\ iter = IterOff
    /\ wsFile = [p \in Projects |-> WsOff]

\* One project with one task, no bound on the agents it spawns, git history kept.
LiveInit ==
    /\ settings \in [maxParallelProjects : {DefaultMaxParallelProjects},
                     maxTaskAttempts : 1..MaxAttemptsSetting]
    /\ projects = {"p1"}
    /\ tasks = [p \in Projects |-> IF p = "p1" THEN <<NewTask(1, 0)>> ELSE <<>>]
    /\ spawnsLeft = Unlimited
    /\ recording = FALSE
    /\ gitLog = [p \in Projects |-> GitNone]
    /\ InitRest
    /\ repos = ReposAtRest
    /\ store = StoreAtStart(FALSE, status, tasks)
    /\ logStream = LogOff
    /\ fnResult = NoCall
    /\ fnInput = NoCall
    /\ iter = IterOff
    /\ wsFile = [p \in Projects |-> WsOff]

\* ------------------------------------------------- program state as a value

\* StateManager.saveState as every mutator calls it: S differs from the
\* current state in a status or a task, so the 100 ms timer is (re)armed.
SaveState(S) ==
    IF store.on /\ (S.tasks # tasks \/ S.status # status)
    THEN [store EXCEPT !.timer = TRUE]
    ELSE store

\* The log stream of an agent process after a handler: startProcess opens
\* it and writes the header; stopProcess, when the process runs, writes a
\* terminator and ends it; the exit event writes a terminator and ends it.
StreamAfter(old, before, after) ==
    LET Ended == [state |-> "ended", ends |-> IF old.ends < 2 THEN old.ends + 1 ELSE 2,
                  late |-> old.late \/ old.state = "ended"]
    IN  IF ~before.alive /\ after.alive THEN [state |-> "open", ends |-> 0, late |-> FALSE]
        ELSE IF before.status = "running" /\ after.status = "stopped" THEN Ended
        ELSE IF before.alive /\ ~after.alive THEN Ended
        ELSE old

LogAfter(S) ==
    IF ~logStream.on THEN logStream
    ELSE [logStream EXCEPT !.of =
            [r \in Runs |-> [k \in {"exec", "review"} |->
                StreamAfter(logStream.of[r][k], procs[r][k], S.procs[r][k])]]]

\* tasks.json goes with the workspace when cleanupWorkspace removes it
WsAfter(S) ==
    [p \in Projects |->
        IF wsFile[p].on /\ workspace[p] /\ ~S.workspace[p]
        THEN [wsFile[p] EXCEPT !.state = "absent", !.tasks = <<>>, !.writing = FALSE]
        ELSE wsFile[p]]

\* The mutable program state, so that the statements of one handler compose.
Cur ==
    [status |-> status, tasks |-> tasks, activeProjects |-> activeProjects, ost |-> ost,
     loop |-> loop, procs |-> procs, workspace |-> workspace, commits |-> commits,
     invocations |-> invocations, gitLog |-> gitLog,
     iter |-> iter]

Apply(S) ==
    /\ status' = S.status
    /\ tasks' = S.tasks
    /\ activeProjects' = S.activeProjects
    /\ ost' = S.ost
    /\ loop' = S.loop
    /\ procs' = S.procs
    /\ workspace' = S.workspace
    /\ commits' = S.commits
    /\ invocations' = S.invocations
    /\ gitLog' = S.gitLog
    /\ store' = SaveState(S)
    /\ iter' = S.iter
    /\ wsFile' = WsAfter(S)
    /\ logStream' = LogAfter(S)

\* entries of activeProjects whose status is running
RunningCountOf(act, os) ==
    Cardinality({p \in Projects : act[p] # NoRun /\ os[act[p]].status = "running"})

\* Seeded fault: every entry counts against the cap, whatever its status.
EntryCount == Cardinality({p \in Projects : activeProjects[p] # NoRun})

RunningCount == RunningCountOf(activeProjects, ost)

\* stateManager.updateProject(id, { status })
UpdateProjectStatus(S, p, st) ==
    IF p \in projects THEN [S EXCEPT !.status[p] = st] ELSE S

\* ------------------------------------------------------------ orchestrator

HandleError(S, p) ==
    LET S1 == UpdateProjectStatus(S, p, "failed")
        w == S1.activeProjects[p]
    IN  IF w # NoRun THEN [S1 EXCEPT !.ost[w].status = "failed"] ELSE S1

\* What git and gh answer during completeProject.
GitOutcomes == {"noDiff", "basePushFails", "pushFails", "prFails", "prCreated"}

CountStatus(ts, st) == Cardinality({i \in 1..Len(ts) : ts[i].status = st})

\* the git history of p after a call that answered what, when the history is kept
GitLogged(S, p, call, what) ==
    IF S.gitLog[p][call] = "off" THEN S ELSE [S EXCEPT !.gitLog[p][call] = what]

\* gitLog keeps the push and PR answers of the last completeProject call
CompleteProject(S0, p, g) ==
    LET S == GitLogged(GitLogged(GitLogged(S0, p, "basePush", "none"),
                                 p, "push", "none"), p, "pr", "none")
        completed == CountStatus(S.tasks[p], "done")
        blocked == CountStatus(S.tasks[p], "blocked")
        Cleaned(S2) == [S2 EXCEPT !.workspace[p] = FALSE]
        Removed(S2) == [S2 EXCEPT !.activeProjects[p] = NoRun]
        BasePush(S2, what) == GitLogged(S2, p, "basePush", what)
        Push(S2, what) == GitLogged(S2, p, "push", what)
        Pr(S2, what) == GitLogged(S2, p, "pr", what)
    IN  IF completed = 0
        THEN Removed(UpdateProjectStatus(S, p, IF blocked > 0 THEN "failed" ELSE "completed"))
        ELSE IF g = "noDiff"
        THEN Removed(Cleaned(UpdateProjectStatus(S, p, "completed")))
        ELSE IF g = "basePushFails"
        THEN Removed(Cleaned(UpdateProjectStatus(BasePush(S, "failed"), p, "failed")))
        ELSE IF g = "pushFails"
        THEN Removed(Cleaned(UpdateProjectStatus(Push(S, "failed"), p, "failed")))
        ELSE IF g = "prCreated"
        THEN Removed(Cleaned(UpdateProjectStatus(Pr(Push(S, "ok"), "ok"), p, "completed")))
        ELSE Removed(Cleaned(UpdateProjectStatus(Pr(Push(S, "ok"), "failed"), p, "failed")))

\* workOnTask up to its await on the execution agent
WorkOnTask(S, r, p, id) ==
    LET w == S.activeProjects[p] IN
    IF w = NoRun \/ S.ost[w].status # "running"
    THEN [S EXCEPT !.loop[r] = Sleeping(@)]
    ELSE LET task == S.tasks[p][FindIndex(S.tasks[p], id)] IN
         [S EXCEPT
            !.ost[w].currentTaskId = id,
            !.tasks = UpdateTask(@, p, id,
                        [status |-> "in_progress", attempts |-> Bump(task.attempts),
                         startedAt |-> TRUE, verifyingAt |-> FALSE, completedAt |-> FALSE]),
            !.procs[r].exec = [status |-> "running", alive |-> TRUE],
            !.invocations[p][id] = Bump(@),
            !.ost[w].currentProcessId = r,
            !.loop[r] = [@ EXCEPT !.pc = "waitExec", !.task = id,
                                  !.attempts = task.attempts, !.w = w]]

\* one pass of the while loop of runLoop, up to its next await
RunLoopIteration(S, r, g) ==
    LET p == S.loop[r].proj
        Ended(S2) == [S2 EXCEPT !.loop[r] = Returned(@)]
        \* the body of the while loop is entered once more
        P == IF S.iter.on THEN [S EXCEPT !.iter.passes[r] = Bump(@)] ELSE S
    IN  IF S.ost[r].status # "running" THEN Ended(S)
        ELSE IF p \notin projects THEN Ended(P)
        ELSE IF S.status[p] \in {"paused", "idle"}
        THEN Ended([P EXCEPT !.ost[r].status = "paused"])
        ELSE LET id == GetNextTask(S.tasks[p]) IN
             IF id = NoTask THEN Ended(CompleteProject(P, p, g))
             ELSE WorkOnTask(P, r, p, id)

\* the exit event of the execution agent and workOnTask from there to its
\* next await; gone is the outcome of its test "orchestratorState.status !== 'running'"
AfterExecFrom(S, r, out, code, gone) ==
    LET S1 == [S EXCEPT !.procs[r].exec =
                   [status |-> IF code = 0 THEN "completed" ELSE "failed", alive |-> FALSE]]
        result == ParseProcessResult(out, S1.procs[r].exec.status)
        p == S.loop[r].proj
        id == S.loop[r].task
        w == S.loop[r].w
        Delay(S2) == [S2 EXCEPT !.loop[r] = Sleeping(@)]
    IN  IF gone THEN Delay(S1)
        ELSE IF result.taskBlocked
        THEN IF S.loop[r].attempts >= settings.maxTaskAttempts
             THEN Delay([S1 EXCEPT !.tasks =
                     AddTaskLog(UpdateTask(@, p, id,
                         [status |-> "blocked", completedAt |-> TRUE]), p, id, FALSE)])
             ELSE Delay([S1 EXCEPT !.tasks = AddTaskLog(@, p, id, FALSE)])
        ELSE IF result.taskComplete
        THEN [S1 EXCEPT
                !.tasks = UpdateTask(@, p, id, [status |-> "verifying", verifyingAt |-> TRUE]),
                !.procs[r].review = [status |-> "running", alive |-> TRUE],
                !.loop[r].pc = "waitReview"]
        ELSE Delay([S1 EXCEPT
                !.tasks = AddTaskLog(@, p, id, FALSE),
                !.ost[w].currentProcessId = NoRun,
                !.ost[w].currentTaskId = NoTask])

\* Seeded fault: after the agent's exit only a stopped entry is noticed.
AfterExecIgnoresPause(S, r, out, code) ==
    AfterExecFrom(S, r, out, code, S.ost[S.loop[r].w].status = "stopped")

AfterExec(S, r, out, code) ==
    AfterExecFrom(S, r, out, code, S.ost[S.loop[r].w].status # "running")

\* What RepoManager.commit does: a commit, nothing on a clean tree, or a failure.
CommitOutcomes == {"committed", "clean", "failed"}

\* Seeded fault: a failed verification that is retried also commits.
AfterReviewCommitsOnFailure(S, r, out, code, test, commit) ==
    LET S1 == [S EXCEPT !.procs[r].review =
                   [status |-> IF code = 0 THEN "completed" ELSE "failed", alive |-> FALSE]]
        p == S.loop[r].proj
        id == S.loop[r].task
        w == S.loop[r].w
        passed == VerifyPassed(test, ReviewPassed(out))
        \* RepoManager.commit answers 'Repository not cloned' without a checkout
        answer == IF S.workspace[p] THEN commit ELSE "failed"
        S2 == IF passed
              THEN GitLogged([S1 EXCEPT
                      !.tasks = AddTaskLog(UpdateTask(@, p, id,
                                    [status |-> "done", completedAt |-> TRUE]), p, id, TRUE),
                      !.commits[p] = IF answer = "committed" THEN Bump(@) ELSE @],
                     p, "commit", answer)
              ELSE IF S.loop[r].attempts >= settings.maxTaskAttempts
              THEN [S1 EXCEPT !.tasks =
                      AddTaskLog(UpdateTask(@, p, id,
                          [status |-> "blocked", completedAt |-> TRUE]), p, id, FALSE)]
              ELSE [S1 EXCEPT !.tasks =
                      AddTaskLog(UpdateTask(@, p, id, [status |-> "in_progress"]), p, id, FALSE),
                      !.commits[p] = Bump(@)]
    IN  [S2 EXCEPT !.ost[w].currentProcessId = NoRun,
                   !.ost[w].currentTaskId = NoTask,
                   !.loop[r] = Sleeping(@)]

\* the exit event of the review agent, the Verifier's decision and the rest of workOnTask
AfterReview(S, r, out, code, test, commit) ==
    LET S1 == [S EXCEPT !.procs[r].review =
                   [status |-> IF code = 0 THEN "completed" ELSE "failed", alive |-> FALSE]]
        p == S.loop[r].proj
        id == S.loop[r].task
        w == S.loop[r].w
        passed == VerifyPassed(test, ReviewPassed(out))
        \* RepoManager.commit answers 'Repository not cloned' without a checkout
        answer == IF S.workspace[p] THEN commit ELSE "failed"
        S2 == IF passed
              THEN GitLogged([S1 EXCEPT
                      !.tasks = AddTaskLog(UpdateTask(@, p, id,
                                    [status |-> "done", completedAt |-> TRUE]), p, id, TRUE),
                      !.commits[p] = IF answer = "committed" THEN Bump(@) ELSE @],
                     p, "commit", answer)
              ELSE IF S.loop[r].attempts >= settings.maxTaskAttempts
              THEN [S1 EXCEPT !.tasks =
                      AddTaskLog(UpdateTask(@, p, id,
                          [status |-> "blocked", completedAt |-> TRUE]), p, id, FALSE)]
              ELSE [S1 EXCEPT !.tasks =
                      AddTaskLog(UpdateTask(@, p, id, [status |-> "in_progress"]), p, id, FALSE)]
    IN  [S2 EXCEPT !.ost[w].currentProcessId = NoRun,
                   !.ost[w].currentTaskId = NoTask,
                   !.loop[r] = Sleeping(@)]

\* ProcessManager.stopProcess of the execution agent of run k
StopProcess(S, k) ==
    IF k = NoRun \/ S.procs[k].exec.status # "running" THEN S
    ELSE [S EXCEPT !.procs[k].exec.status = "stopped"]

StopProjectEffect(S, p) ==
    LET w == S.activeProjects[p]
        S1 == StopProcess(S, S.ost[w].currentProcessId)
        S2 == UpdateProjectStatus([S1 EXCEPT !.ost[w].status = "stopped"], p, "idle")
        id == S.ost[w].currentTaskId
        i == IF p \in projects THEN FindIndex(S2.tasks[p], id) ELSE 0
        S3 == IF id # NoTask /\ i # 0 /\ S2.tasks[p][i].status = "in_progress"
              THEN [S2 EXCEPT !.tasks = UpdateTask(@, p, id,
                        [status |-> "backlog", startedAt |-> FALSE,
                         verifyingAt |-> FALSE, completedAt |-> FALSE])]
              ELSE S2
    IN  [S3 EXCEPT !.activeProjects[p] = NoRun]

\* ----------------------------------------------------------- histories

\* A step that is not a start: a release is a drop of the running count.
PhaseAfterStep(S) ==
    IF capPhase = "rejected"
       /\ RunningCountOf(S.activeProjects, S.ost) < RunningCountOf(activeProjects, ost)
    THEN "released" ELSE capPhase

\* A start call on p that returned ok.
PhaseAfterStart(p, ok, why) ==
    IF ~recording THEN capPhase
    ELSE IF capPhase = "none" /\ why = "capacity" THEN "rejected"
    ELSE IF capPhase = "released" /\ p \in projects /\ activeProjects[p] = NoRun
    THEN (IF ok THEN "admitted" ELSE "refused")
    ELSE capPhase

Returns(p, ok, why) ==
    /\ startResult' = IF recording THEN [proj |-> p, ok |-> ok, why |-> why] ELSE startResult
    /\ capPhase' = PhaseAfterStart(p, ok, why)

\* S has one execution agent more than the current state
Spawns(S) == \E r \in Runs : S.procs[r].exec.alive /\ ~procs[r].exec.alive

Step(S) ==
    /\ Spawns(S) => spawnsLeft # 0
    /\ Apply(S)
    /\ capPhase' = PhaseAfterStep(S)
    /\ spawnsLeft' = IF Spawns(S) /\ spawnsLeft > 0 THEN spawnsLeft - 1 ELSE spawnsLeft
    /\ UNCHANGED <<settings, orchCap, projects, runsUsed, startResult, recording, selVars,
                   envVars>>

\* ------------------------------------------------------------- actions

\* Seeded fault: a rejected start that marks the project failed.
RejectedMarksFailed(p, why) ==
    /\ Returns(p, FALSE, why)
    /\ status' = [status EXCEPT ![p] = "failed"]
    /\ UNCHANGED <<settings, orchCap, projects, tasks, activeProjects, ost,
                   runsUsed, loop, procs, workspace, commits, invocations, spawnsLeft,
                   recording, gitLog, store, iter, selVars, wsFile, logStream, envVars>>

Rejected(p, why) ==
    /\ Returns(p, FALSE, why)
    /\ UNCHANGED <<settings, orchCap, projects, status, tasks, activeProjects, ost,
                   runsUsed, loop, procs, workspace, commits, invocations, spawnsLeft,
                   recording, gitLog, store, iter, selVars, wsFile, logStream, envVars>>

\* startProject once admitted, with runLoop and setupRepository up to the await on cloneRepo
Admitted(p) ==
    LET r == runsUsed + 1 IN
    /\ runsUsed < MaxRuns
    /\ Apply([Cur EXCEPT
          !.ost[r] = [projectId |-> p, status |-> "running", currentTaskId |-> NoTask,
                      currentProcessId |-> NoRun],
          !.activeProjects[p] = r,
          !.status[p] = "running",
          !.loop[r] = [UnusedLoop EXCEPT !.pc = "clone", !.proj = p,
                                         !.wsExisted = workspace[p]]])
    /\ runsUsed' = r
    /\ Returns(p, TRUE, "none")
    /\ UNCHANGED <<settings, orchCap, projects, spawnsLeft, recording, selVars, envVars>>

\* Seeded fault: the cap test lets one project too many in.
StartProjectCallOffByOne(p) ==
    IF p \notin projects THEN Rejected(p, "notFound")
    ELSE IF activeProjects[p] # NoRun THEN Rejected(p, "alreadyRunning")
    ELSE IF RunningCount > orchCap THEN Rejected(p, "capacity")
    ELSE Admitted(p)

StartProjectCall(p) ==
    IF p \notin projects THEN Rejected(p, "notFound")
    ELSE IF activeProjects[p] # NoRun THEN Rejected(p, "alreadyRunning")
    ELSE IF RunningCount >= orchCap THEN Rejected(p, "capacity")
    ELSE Admitted(p)

StartProject(p) == StartProjectCall(p)

\* cloneRepo returns; the rest of setupRepository; then the first pass of the loop
SetupReturnWith(r, answers) ==
    /\ loop[r].pc = "clone"
    /\ \E cloneOk \in answers, baseOk \in answers, workingOk \in answers, g \in GitOutcomes :
         LET p == loop[r].proj
             S1 == IF cloneOk THEN [Cur EXCEPT !.workspace[p] = TRUE] ELSE Cur
         IN  IF (~loop[r].wsExisted /\ ~cloneOk) \/ ~baseOk \/ ~workingOk
             THEN Step([HandleError(S1, p) EXCEPT !.loop[r] = Returned(@)])
             ELSE Step(RunLoopIteration(S1, r, g))

SetupReturn(r) == SetupReturnWith(r, BOOLEAN)

\* the execution agent exits, having printed one of outs
ExecExitWith(r, outs) ==
    /\ loop[r].pc = "waitExec"
    /\ procs[r].exec.alive
    /\ \E out \in outs, code \in ExitCodes : Step(AfterExec(Cur, r, out, code))

ExecExit(r) == ExecExitWith(r, ExecOutputs)

\* the review agent exits, having printed one of outs, with one of codes
ReviewExitWith(r, outs, codes) ==
    /\ loop[r].pc = "waitReview"
    /\ procs[r].review.alive
    /\ \E out \in outs, code \in codes, test \in TestResults,
          commit \in CommitOutcomes :
         Step(AfterReview(Cur, r, out, code, test, commit))

ReviewExit(r) == ReviewExitWith(r, ReviewOutputs, ExitCodes)

\* the 2 s sleep between tasks is over
DelayReturn(r) ==
    /\ loop[r].pc = "delay"
    /\ \E g \in GitOutcomes : Step(RunLoopIteration(Cur, r, g))

StopProject(p) ==
    IF activeProjects[p] = NoRun THEN UNCHANGED vars
    ELSE Step(StopProjectEffect(Cur, p))

PauseProject(p) ==
    LET w == activeProjects[p] IN
    IF w = NoRun \/ ost[w].status # "running" THEN UNCHANGED vars
    ELSE Step(UpdateProjectStatus([Cur EXCEPT !.ost[w].status = "paused"], p, "paused"))

ResumeProject(p) ==
    IF p \notin projects \/ status[p] # "paused" THEN UNCHANGED vars
    ELSE StartProjectCall(p)

Next ==
    \/ \E p \in Projects : StartProject(p)
    \/ \E p \in Projects : StopProject(p)
    \/ \E p \in Projects : PauseProject(p)
    \/ \E p \in Projects : ResumeProject(p)
    \/ \E r \in Runs : SetupReturn(r)
    \/ \E r \in Runs : ExecExit(r)
    \/ \E r \in Runs : ReviewExit(r)
    \/ \E r \in Runs : DelayReturn(r)

Spec == Init /\ [][Next]_vars

\* The admission claims: two projects competing for the cap, histories kept.
CapSpec == CapInit /\ [][Next]_vars

\* The git claims: one task, the answers of commit, push and PR kept.
GitSpec == GitInit /\ [][Next]_vars

\* ------------------------------------------------ restricted environments

\* No stop, pause or resume is issued, and every git call of the setup succeeds.
SetupSucceeds(r) == SetupReturnWith(r, {TRUE})

LoopStep(r) ==
    \/ SetupSucceeds(r)
    \/ ExecExit(r)
    \/ ReviewExit(r)
    \/ DelayReturn(r)

LiveNext ==
    \/ \E p \in Projects : StartProject(p)
    \/ \E r \in Runs : LoopStep(r)

\* Every await of a run loop returns: the git call, the agent's exit, the timer.
LiveSpec ==
    /\ LiveInit
    /\ [][LiveNext]_vars
    /\ \A r \in Runs : WF_vars(LoopStep(r))

\* The agent prints TASK_BLOCKED on every invocation; no stop, pause or resume.
BlockedAgentExit(r) == ExecExitWith(r, {{"TASK_BLOCKED"}})

BlockedNext ==
    \/ \E p \in Projects : StartProject(p)
    \/ \E r \in Runs : SetupReturn(r)
    \/ \E r \in Runs : BlockedAgentExit(r)
    \/ \E r \in Runs : DelayReturn(r)

BlockedSpec == BlockedInit /\ [][BlockedNext]_vars

\* ------------------------------------------------------ task selection

\* a project's list: ids in insertion order, any priority, any status
SelTaskList(n, pr, st) == [i \in 1..n |-> [NewTask(i, pr[i]) EXCEPT !.status = st[i]]]

SelInit ==
    /\ \E n \in 0..MaxSelLen :
         \E pr \in [1..n -> 0..2], st \in [1..n -> TaskStatus] :
            selTasks = SelTaskList(n, pr, st)
    /\ selResult = NotCalled
    /\ settings = [maxParallelProjects |-> DefaultMaxParallelProjects, maxTaskAttempts |-> 1]
    /\ projects = {}
    /\ tasks = [p \in Projects |-> <<>>]
    /\ spawnsLeft = 0
    /\ recording = FALSE
    /\ gitLog = [p \in Projects |-> GitOff]
    /\ orchCap = settings.maxParallelProjects
    /\ status = [p \in Projects |-> "idle"]
    /\ activeProjects = [p \in Projects |-> NoRun]
    /\ ost = [r \in Runs |-> UnusedOst]
    /\ runsUsed = 0
    /\ loop = [r \in Runs |-> UnusedLoop]
    /\ procs = [r \in Runs |-> UnusedProcs]
    /\ workspace = [p \in Projects |-> FALSE]
    /\ commits = [p \in Projects |-> 0]
    /\ invocations = [p \in Projects |-> [i \in 1..MaxTasks |-> 0]]
    /\ startResult = [proj |-> "-", ok |-> FALSE, why |-> "none"]
    /\ capPhase = "none"
    /\ repos = ReposAtRest
    /\ store = StoreAtStart(FALSE, status, tasks)
    /\ logStream = LogOff
    /\ fnResult = NoCall
    /\ fnInput = NoCall
    /\ iter = IterOff
    /\ wsFile = [p \in Projects |-> WsOff]

\* getNextTask is called on the list
Select ==
    /\ selResult = NotCalled
    /\ selResult' = GetNextTask(selTasks)
    /\ UNCHANGED <<settings, orchCap, projects, status, tasks, activeProjects, ost,
                   runsUsed, loop, procs, workspace, commits, invocations, startResult,
                   capPhase, spawnsLeft, recording, gitLog, store, iter, selTasks, wsFile, logStream, envVars>>

SelNext == Select

SelSpec == SelInit /\ [][SelNext]_vars

\* ------------------------------------------------------------------ claims

\* C1: for every task, the number of execution agents spawned for it never
\* exceeds settings.maxTaskAttempts, whatever the agents print.
C1_InvocationsWithinMaxAttempts ==
    \A p \in Projects : \A i \in 1..MaxTasks :
        invocations[p][i] <= settings.maxTaskAttempts

\* no agent of p is being awaited
AgentIdle(p) ==
    \A r \in Runs : loop[r].proj = p => loop[r].pc \notin {"waitExec", "waitReview"}

\* C2: with an agent that always prints TASK_BLOCKED and maxTaskAttempts = N,
\* a task is in_progress once each of its attempts 1..N-1 has ended, and is
\* blocked with completedAt set and attempts = N once attempt N has ended.
C2_BlockedAtNthAttempt ==
    \A p \in projects : \A i \in 1..Len(tasks[p]) :
        LET t == tasks[p][i] IN
        (AgentIdle(p) /\ t.attempts >= 1) =>
            IF t.attempts < settings.maxTaskAttempts
            THEN t.status = "in_progress"
            ELSE t.status = "blocked" /\ t.completedAt
                 /\ t.attempts = settings.maxTaskAttempts

\* C3: when every git call, agent and verifier returns and nobody stops or
\* pauses, a project that has an entry eventually is completed or failed with
\* its entry removed.
C3_StartedProjectTerminates ==
    \A p \in Projects :
        (activeProjects[p] # NoRun) ~>
            (status[p] \in {"completed", "failed"} /\ activeProjects[p] = NoRun)

\* C4: the number of entries whose status is running never exceeds the cap
\* the orchestrator enforces (maxParallelProjects).
C4_RunningWithinCap == RunningCount <= orchCap

C4_AtCapAndRejected ==
    /\ RunningCount = orchCap
    /\ ~startResult.ok /\ startResult.why = "capacity"

\* C5: a start that is rejected (project not found, entry present, cap
\* reached) returns failure and changes no Project status and no entry.
C5_RejectedStartChangesNothing ==
    [][\A p \in Projects :
          (StartProject(p) /\ startResult'.proj = p /\ ~startResult'.ok)
              => UNCHANGED <<status, activeProjects, ost>>]_vars

C5_RejectedWhileRunning ==
    /\ ~startResult.ok /\ startResult.why = "alreadyRunning"
    /\ startResult.proj \in projects
    /\ activeProjects[startResult.proj] # NoRun
    /\ status[startResult.proj] = "running"

\* C6: after a start was rejected at the cap and a slot was released since,
\* the next start of a project that has no entry is admitted.
C6_AdmittedAfterRelease == capPhase # "refused"

C6_AdmittedAfterReleaseSeen ==
    /\ capPhase = "admitted"
    /\ startResult.ok

IsFirstWith(ts, i, st) ==
    /\ i \in 1..Len(ts)
    /\ ts[i].status = st
    /\ \A j \in 1..(i - 1) : ts[j].status # st

\* the backlog task no other backlog task precedes: lower priority value
\* first, the earlier inserted one among equals
IsBestBacklog(ts, i) ==
    /\ i \in 1..Len(ts)
    /\ ts[i].status = "backlog"
    /\ \A j \in 1..Len(ts) :
          (j # i /\ ts[j].status = "backlog") =>
              \/ ts[i].priority < ts[j].priority
              \/ (ts[i].priority = ts[j].priority /\ i < j)

HasStatus(ts, st) == \E i \in 1..Len(ts) : ts[i].status = st

\* C7: getNextTask returns the first in_progress task; else the first
\* verifying task; else the backlog task of lowest priority value, the
\* earliest inserted among equals; and nothing when there is none of these.
C7_SelectionOrder ==
    selResult # NotCalled =>
        IF HasStatus(selTasks, "in_progress")
        THEN \E i \in 1..Len(selTasks) :
                IsFirstWith(selTasks, i, "in_progress") /\ selResult = selTasks[i].id
        ELSE IF HasStatus(selTasks, "verifying")
        THEN \E i \in 1..Len(selTasks) :
                IsFirstWith(selTasks, i, "verifying") /\ selResult = selTasks[i].id
        ELSE IF HasStatus(selTasks, "backlog")
        THEN \E i \in 1..Len(selTasks) :
                IsBestBacklog(selTasks, i) /\ selResult = selTasks[i].id
        ELSE selResult = NoTask

\* a tie among backlog tasks behind a task of higher priority value was decided
C7_TieDecided ==
    /\ selResult \notin {NotCalled, NoTask}
    /\ ~HasStatus(selTasks, "in_progress") /\ ~HasStatus(selTasks, "verifying")
    /\ \E i, j, k \in 1..Len(selTasks) :
          /\ i < j /\ j < k
          /\ selTasks[i].status = "backlog" /\ selTasks[j].status = "backlog"
          /\ selTasks[k].status = "backlog"
          /\ selTasks[i].priority > selTasks[j].priority
          /\ selTasks[j].priority = selTasks[k].priority
          /\ selResult = selTasks[j].id

\* C8: a stop of a project that has an entry leaves the Project idle, without
\* entry, and with none of its tasks in_progress.
C8_StopLeavesNothingInProgress ==
    [][\A p \in Projects :
          (activeProjects[p] # NoRun /\ StopProject(p)) =>
              /\ status'[p] = "idle"
              /\ activeProjects'[p] = NoRun
              /\ \A i \in 1..Len(tasks'[p]) : tasks'[p][i].status # "in_progress"]_vars

\* C9: a run that was stopped makes no further change to the tasks of its
\* project and records no commit.
C9_StoppedRunMutatesNothing ==
    [][\A r \in Runs :
          (ost[r].status = "stopped" /\ loop'[r] # loop[r]) =>
              /\ tasks'[loop[r].proj] = tasks[loop[r].proj]
              /\ commits'[loop[r].proj] = commits[loop[r].proj]]_vars

\* C10: when a stop of a project returns, every agent process spawned for the
\* project, execution or self-review, that has not exited has been killed.
C10_StopCancelsAllAgents ==
    [][\A p \in Projects :
          (activeProjects[p] # NoRun /\ StopProject(p)) =>
              \A r \in Runs : loop'[r].proj = p =>
                  /\ procs'[r].exec.alive => procs'[r].exec.status = "stopped"
                  /\ procs'[r].review.alive => procs'[r].review.status = "stopped"]_vars

\* agent processes of p that were spawned, have not exited and were not killed
RunningAgents(p) ==
    { <<r, k>> \in Runs \X {"exec", "review"} :
        loop[r].proj = p /\ procs[r][k].alive /\ procs[r][k].status = "running" }

\* run loops of p that have not returned
ActiveLoops(p) ==
    { r \in Runs : loop[r].proj = p /\ loop[r].pc \in {"clone", "waitExec", "waitReview", "delay"} }

\* C11: a project never has two agent processes (execution or self-review)
\* running at once, nor two run loops that have not returned.
C11_OneAgentAndOneLoopPerProject ==
    \A p \in Projects :
        /\ Cardinality(RunningAgents(p)) <= 1
        /\ Cardinality(ActiveLoops(p)) <= 1

\* C12: a resume of a project that was paused (Project paused, entry
\* paused), issued while the cap leaves room, returns success, makes the
\* Project running and leaves it with a running entry.
C12_ResumeAfterPauseAdmitted ==
    [][\A p \in Projects :
          ( /\ status[p] = "paused"
            /\ activeProjects[p] # NoRun
            /\ ost[activeProjects[p]].status = "paused"
            /\ RunningCount < orchCap
            /\ ResumeProject(p) ) =>
              /\ startResult'.ok
              /\ status'[p] = "running"
              /\ activeProjects'[p] # NoRun
              /\ ost'[activeProjects'[p]].status = "running"]_vars

\* C13: once the setup of a run has failed (handleError marked its entry
\* failed), the Project is failed, its entry is removed and no agent was
\* spawned by the run.
C13_SetupFailureRemovesEntry ==
    \A r \in Runs :
        (ost[r].status = "failed" /\ loop[r].pc = "ended") =>
            /\ status[ost[r].projectId] = "failed"
            /\ activeProjects[ost[r].projectId] = NoRun
            /\ procs[r].exec.status = "none"

\* C14: when a run finds no task left and none is done, the Project becomes
\* completed if no task is blocked and failed otherwise, the workspace is
\* removed and the entry is removed.
C14_DrainedWithoutDoneTask ==
    [][\A r \in Runs :
          LET p == loop[r].proj IN
          ( /\ loop[r].pc \in {"clone", "delay"}
            /\ loop'[r].pc = "ended"
            /\ activeProjects[p] # NoRun
            /\ activeProjects'[p] = NoRun
            /\ CountStatus(tasks[p], "done") = 0 ) =>
              /\ status'[p] = IF CountStatus(tasks[p], "blocked") = 0
                              THEN "completed" ELSE "failed"
              /\ workspace'[p] = FALSE]_vars

\* a step in which a run of p finished completeProject
Completes(p) ==
    \E r \in Runs :
        /\ loop[r].proj = p
        /\ loop[r].pc \in {"clone", "delay"}
        /\ loop'[r].pc = "ended"
        /\ activeProjects[p] # NoRun
        /\ activeProjects'[p] = NoRun

\* a step in which a task of p was marked done, logged and handed to commit
MarksDone(p) ==
    \E i \in 1..Len(tasks[p]) :
        /\ tasks'[p][i].status = "done"
        /\ tasks'[p][i].logsOk # tasks[p][i].logsOk

\* C15: a PR is attempted only after the push of the working branch
\* succeeded; a failed push (base or working branch) makes the Project failed
\* with no PR; the Project is completed on PR success and failed on PR
\* failure; and no task is marked done and committed once the working branch
\* was pushed.
C15_CommitPushPrOrder ==
    [][\A p \in Projects :
          /\ Completes(p) =>
               /\ gitLog'[p].pr # "none" => gitLog'[p].push = "ok"
               /\ (gitLog'[p].push = "failed" \/ gitLog'[p].basePush = "failed") =>
                      (status'[p] = "failed" /\ gitLog'[p].pr = "none")
               /\ gitLog'[p].pr = "ok" => status'[p] = "completed"
               /\ gitLog'[p].pr = "failed" => status'[p] = "failed"
          /\ MarksDone(p) => gitLog[p].push # "ok"]_vars

\* a step in which the verification of task i of p failed
VerificationFailed(p, i) ==
    /\ i \in 1..Len(tasks[p])
    /\ tasks[p][i].status = "verifying"
    /\ tasks'[p][i].status \notin {"verifying", "done"}
    /\ tasks'[p][i].logsFail # tasks[p][i].logsFail

\* a step in which run r, its sleep over, goes through the loop once more
NextIteration(r) ==
    /\ loop[r].pc = "delay"
    /\ loop'[r].pc # "delay"
    /\ ost[r].status = "running"
    /\ status[loop[r].proj] \notin {"paused", "idle"}

\* C16: a verification that fails with attempts below maxTaskAttempts puts
\* the task back to in_progress, keeps startedAt and makes no commit; the
\* next iteration executes the in_progress task again; and a task that is
\* done after one failure and one pass has attempts = 2, with exactly one
\* commit when the commit went through.
C16_RetryAfterFailedVerification ==
    /\ [][\A p \in Projects : \A i \in 1..MaxTasks :
            (VerificationFailed(p, i) /\ tasks[p][i].attempts < settings.maxTaskAttempts) =>
                /\ tasks'[p][i].status = "in_progress"
                /\ tasks'[p][i].startedAt = tasks[p][i].startedAt
                /\ tasks'[p][i].attempts = tasks[p][i].attempts
                /\ commits'[p] = commits[p]]_vars
    /\ [][\A r \in Runs :
            (NextIteration(r) /\ HasStatus(tasks[loop[r].proj], "in_progress")) =>
                LET p == loop[r].proj
                    i == FindStatus(tasks[p], "in_progress")
                IN  /\ loop'[r].pc = "waitExec"
                    /\ loop'[r].task = tasks[p][i].id
                    /\ tasks'[p][i].status = "in_progress"
                    /\ tasks'[p][i].attempts = Bump(tasks[p][i].attempts)]_vars
    /\ [](\A p \in Projects : \A i \in 1..Len(tasks[p]) :
            (tasks[p][i].status = "done" /\ tasks[p][i].logsOk = 1
                /\ tasks[p][i].logsFail = 1) =>
                /\ tasks[p][i].attempts = 2
                /\ gitLog[p].commit = "committed" => commits[p] = 1)

\* done at the second attempt, after a failed verification, with its commit
C16_DoneAtSecondAttempt ==
    /\ settings.maxTaskAttempts = 2
    /\ tasks["p1"][1].status = "done"
    /\ tasks["p1"][1].attempts = 2
    /\ tasks["p1"][1].logsOk = 1 /\ tasks["p1"][1].logsFail = 1
    /\ tasks["p1"][1].startedAt /\ tasks["p1"][1].verifyingAt
    /\ gitLog["p1"].commit = "committed"
    /\ commits["p1"] = 1

\* C20: a task that became done while the tree had changes (git commit was
\* attempted, the tree was not reported clean) is followed by a commit on
\* the working branch, also when the commit operation fails.
C20_DoneFollowedByCommit ==
    \A p \in Projects :
        ( /\ HasStatus(tasks[p], "done")
          /\ gitLog[p].commit = "failed"
          /\ workspace[p]
          /\ commits[p] = 0 ) ~> (commits[p] > 0)

\* ------------------------------------------------ task edits over IPC

\* ipc 'task:update' with the updates the board sends on a drop,
\* { status: column.id }: StateManager.updateTask, then the reset of a
\* project that is not running to idle when a task went to backlog.
TaskUpdate(p, id, st) ==
    LET S1 == [Cur EXCEPT !.tasks = UpdateTask(@, p, id, [status |-> st])]
        S2 == IF st = "backlog" /\ p \in projects /\ S1.status[p] # "running"
                 /\ HasStatus(S1.tasks[p], "backlog")
              THEN UpdateProjectStatus(S1, p, "idle")
              ELSE S1
    IN  Step(S2)

\* ipc 'task:create' from a column of the board: StateManager.createTask
\* with status column.id and the default priority project.tasks.length.
TaskCreate(p, st) ==
    IF p \notin projects THEN UNCHANGED vars
    ELSE /\ Len(tasks[p]) < MaxTasks
         /\ Step([Cur EXCEPT !.tasks[p] =
                    Append(@, [NewTask(Len(@) + 1, Len(@)) EXCEPT !.status = st])])

\* One project with one task, and a board on which tasks are moved and added.
EditInit ==
    /\ settings \in [maxParallelProjects : {DefaultMaxParallelProjects},
                     maxTaskAttempts : 1..MaxAttemptsSetting]
    /\ projects = {"p1"}
    /\ tasks = [p \in Projects |-> IF p = "p1" THEN <<NewTask(1, 0)>> ELSE <<>>]
    /\ spawnsLeft = 1
    /\ recording = FALSE
    /\ gitLog = [p \in Projects |-> GitOff]
    /\ InitRest
    /\ repos = ReposAtRest
    /\ store = StoreAtStart(FALSE, status, tasks)
    /\ logStream = LogOff
    /\ fnResult = NoCall
    /\ fnInput = NoCall
    /\ iter = IterOff
    /\ wsFile = [p \in Projects |-> WsOff]

EditNext ==
    \/ Next
    \/ \E p \in Projects : \E id \in 1..MaxTasks : \E st \in TaskStatus : TaskUpdate(p, id, st)
    \/ \E p \in Projects : \E st \in TaskStatus : TaskCreate(p, st)

EditSpec == EditInit /\ [][EditNext]_vars

\* C17: every task with status done has completedAt set and at least one
\* log entry with success = true.
C17_DoneHasCompletedAtAndSuccessLog ==
    \A p \in Projects : \A i \in 1..Len(tasks[p]) :
        tasks[p][i].status = "done" =>
            tasks[p][i].completedAt /\ tasks[p][i].logsOk >= 1

\* C18: every task with status blocked has completedAt set and attempts at
\* least maxTaskAttempts.
C18_BlockedHasCompletedAtAndBudgetSpent ==
    \A p \in Projects : \A i \in 1..Len(tasks[p]) :
        tasks[p][i].status = "blocked" =>
            tasks[p][i].completedAt /\ tasks[p][i].attempts >= settings.maxTaskAttempts

\* ------------------------------------------- the state file and its watcher

\* The timer of saveState fires: writeFileSync of the state, which raises a
\* change event for the watcher while it is open; or writeFileSync throws,
\* the error is logged and the file stays.
SaveFireWith(answers) ==
    /\ store.on /\ store.timer
    /\ \E written \in answers :
         store' = IF written
                  THEN [store EXCEPT !.timer = FALSE, !.event = store.watching,
                                     !.file = Snapshot(status, tasks), !.rest = Rest,
                                     !.readable = TRUE, !.failed = FALSE]
                  ELSE [store EXCEPT !.timer = FALSE, !.failed = recording]
    /\ UNCHANGED <<settings, orchCap, projects, status, tasks, activeProjects, ost,
                   runsUsed, loop, procs, workspace, commits, invocations, startResult,
                   capPhase, spawnsLeft, recording, gitLog, iter, selVars, wsFile, logStream, envVars>>

SaveFire == SaveFireWith(BOOLEAN)

\* The watcher's callback on 'change': loadState, which answers defaultState
\* when the file cannot be read or parsed, and the in-memory state is
\* replaced by what loadState answered when the two differ.
WatchFire ==
    /\ store.on /\ store.event
    /\ store' = [store EXCEPT !.event = FALSE]
    /\ LET newState == IF store.readable THEN [file |-> store.file, rest |-> store.rest]
                       ELSE DefaultState
           differs == newState # [file |-> Snapshot(status, tasks), rest |-> Rest]
       IN  /\ status' = IF differs THEN newState.file.status ELSE status
           /\ tasks' = IF differs THEN newState.file.tasks ELSE tasks
           /\ projects' = IF differs THEN newState.rest.projects ELSE projects
           /\ settings' = IF differs THEN newState.rest.settings ELSE settings
           /\ repos' = IF differs
                       THEN [repos EXCEPT !.repositories = newState.rest.repositories]
                       ELSE repos
    /\ UNCHANGED <<orchCap, activeProjects, ost,
                   runsUsed, loop, procs, workspace, commits, invocations, startResult,
                   capPhase, spawnsLeft, recording, gitLog, iter, selVars, wsFile, logStream,
                   fnInput, fnResult>>

\* One project with one task, loaded from a state file that is being watched.
PersistInit ==
    /\ settings \in [maxParallelProjects : {DefaultMaxParallelProjects},
                     maxTaskAttempts : 1..MaxAttemptsSetting]
    /\ projects = {"p1"}
    /\ tasks = [p \in Projects |-> IF p = "p1" THEN <<NewTask(1, 0)>> ELSE <<>>]
    /\ spawnsLeft = 1
    /\ recording = FALSE
    /\ gitLog = [p \in Projects |-> GitOff]
    /\ InitRest
    /\ repos = ReposAtRest
    /\ store = StoreAtStart(TRUE, status, tasks)
    /\ logStream = LogOff
    /\ fnResult = NoCall
    /\ fnInput = NoCall
    /\ iter = IterOff
    /\ wsFile = [p \in Projects |-> WsOff]

PersistNext ==
    \/ Next
    \/ SaveFire
    \/ WatchFire

PersistSpec == PersistInit /\ [][PersistNext]_vars

\* StateManager.cleanup: the watcher is closed and the pending save is dropped
Cleanup ==
    /\ store.on /\ store.watching
    /\ store' = [store EXCEPT !.watching = FALSE, !.event = FALSE, !.timer = FALSE]
    /\ UNCHANGED <<settings, orchCap, projects, status, tasks, activeProjects, ost,
                   runsUsed, loop, procs, workspace, commits, invocations, startResult,
                   capPhase, spawnsLeft, recording, gitLog, iter, selVars, wsFile, logStream, envVars>>

\* One project with one task and a watched state file; one agent may be spawned.
SaveInit ==
    /\ settings = [maxParallelProjects |-> DefaultMaxParallelProjects, maxTaskAttempts |-> 1]
    /\ projects = {"p1"}
    /\ tasks = [p \in Projects |-> IF p = "p1" THEN <<NewTask(1, 0)>> ELSE <<>>]
    /\ spawnsLeft = 1
    /\ recording = FALSE
    /\ gitLog = [p \in Projects |-> GitOff]
    /\ InitRest
    /\ repos = ReposAtRest
    /\ store = StoreAtStart(TRUE, status, tasks)
    /\ logStream = LogOff
    /\ fnResult = NoCall
    /\ fnInput = NoCall
    /\ iter = IterOff
    /\ wsFile = [p \in Projects |-> WsOff]

\* the timer fires and writeFileSync does not throw
SaveWritten == SaveFireWith({TRUE})

SaveNext ==
    \/ \E p \in Projects : StartProject(p)
    \/ \E r \in Runs : LoopStep(r)
    \/ SaveWritten
    \/ WatchFire
    \/ Cleanup

\* Every await of a run loop returns, every armed timer fires, every write
\* of the state file succeeds and every change event is delivered.
SaveSpec ==
    /\ SaveInit
    /\ [][SaveNext]_vars
    /\ \A r \in Runs : WF_vars(LoopStep(r))
    /\ WF_vars(SaveWritten)
    /\ WF_vars(WatchFire)

\* One project with one task and a watched state file; the answers of the
\* start calls and the failures of the writes are kept.
WriteInit ==
    /\ settings = [maxParallelProjects |-> DefaultMaxParallelProjects, maxTaskAttempts |-> 1]
    /\ projects = {"p1"}
    /\ tasks = [p \in Projects |-> IF p = "p1" THEN <<NewTask(1, 0)>> ELSE <<>>]
    /\ spawnsLeft = 1
    /\ recording = TRUE
    /\ gitLog = [p \in Projects |-> GitOff]
    /\ InitRest
    /\ repos = ReposAtRest
    /\ store = StoreAtStart(TRUE, status, tasks)
    /\ logStream = LogOff
    /\ fnResult = NoCall
    /\ fnInput = NoCall
    /\ iter = IterOff
    /\ wsFile = [p \in Projects |-> WsOff]

\* start calls and run loops, the timer of saveState and the watcher
WriteNext ==
    \/ \E p \in Projects : StartProject(p)
    \/ \E r \in Runs : LoopStep(r)
    \/ SaveFire
    \/ WatchFire

WriteSpec == WriteInit /\ [][WriteNext]_vars

\* C32: the step in which a write of state.json throws leaves the state in
\* memory as it was, and the call whose mutation was to be written (here a
\* start call, the last one answered) is not left with the answer ok.
C32_WriteFailureSurfaced ==
    [][(store'.failed /\ ~store.failed) =>
          /\ tasks' = tasks /\ status' = status
          /\ ~startResult'.ok]_vars

\* a mutation is waiting for its write: the file is not the state in memory
Unsaved == store.on /\ store.file # Snapshot(status, tasks)

C19_AttemptsNeverDecrease ==
    [][\A p \in Projects : \A i \in 1..Len(tasks[p]) :
          i <= Len(tasks'[p]) => tasks'[p][i].attempts >= tasks[p][i].attempts]_vars

\* --------------------------------------------- the workspace tasks.json

\* a task as syncTasksToWorkspace writes it
WorkspaceTask(t) ==
    [id |-> t.id, priority |-> t.priority, status |-> t.status, attempts |-> t.attempts,
     startedAt |-> t.startedAt, verifyingAt |-> t.verifyingAt, completedAt |-> t.completedAt]

WorkspaceTasks(ts) == [i \in 1..Len(ts) |-> WorkspaceTask(ts[i])]

\* the main process is inside a writeFileSync of some tasks.json
Writing == \E p \in Projects : wsFile[p].writing

\* ipc 'project:syncTasks' up to the open of writeFileSync, which truncates the file
SyncTasksOpen(p) ==
    /\ ~Writing
    /\ wsFile[p].on
    /\ IF p \notin projects THEN UNCHANGED vars
       ELSE /\ wsFile' = [wsFile EXCEPT ![p].state = "empty", ![p].tasks = <<>>,
                                        ![p].writing = TRUE]
            /\ UNCHANGED <<settings, orchCap, projects, status, tasks, activeProjects, ost,
                           runsUsed, loop, procs, workspace, commits, invocations,
                           startResult, capPhase, spawnsLeft, recording, gitLog, store,
                           iter, logStream, selVars, envVars>>

\* writeFileSync goes on: a first part of the data is written, or all of it
\* and the handler returns, or the write throws and the handler returns false
SyncTasksWrite(p) ==
    /\ wsFile[p].writing
    /\ \E how \in {"part", "all", "throws"} :
         /\ how = "part" => wsFile[p].state = "empty"
         /\ wsFile' = [wsFile EXCEPT ![p] =
              IF how = "part" THEN [@ EXCEPT !.state = "partial"]
              ELSE IF how = "all"
              THEN [@ EXCEPT !.state = "whole", !.tasks = WorkspaceTasks(tasks[p]),
                             !.writing = FALSE]
              ELSE [@ EXCEPT !.writing = FALSE]]
    /\ UNCHANGED <<settings, orchCap, projects, status, tasks, activeProjects, ost,
                   runsUsed, loop, procs, workspace, commits, invocations,
                   startResult, capPhase, spawnsLeft, recording, gitLog, store, iter, logStream, selVars, envVars>>

\* an external writer replaces tasks.json (tmp + rename), the priorities reordered
ExternalWrite(p) ==
    /\ wsFile[p].on /\ wsFile[p].state = "whole" /\ ~wsFile[p].writing
    /\ \E pr \in [1..Len(wsFile[p].tasks) -> Priorities] :
         /\ \E i \in 1..Len(wsFile[p].tasks) : pr[i] # wsFile[p].tasks[i].priority
         /\ \A v \in Priorities :
               Cardinality({i \in 1..Len(wsFile[p].tasks) : pr[i] = v})
                 = Cardinality({i \in 1..Len(wsFile[p].tasks) : wsFile[p].tasks[i].priority = v})
         /\ wsFile' = [wsFile EXCEPT ![p].tasks =
                          [i \in 1..Len(@) |-> [@[i] EXCEPT !.priority = pr[i]]]]
    /\ UNCHANGED <<settings, orchCap, projects, status, tasks, activeProjects, ost,
                   runsUsed, loop, procs, workspace, commits, invocations,
                   startResult, capPhase, spawnsLeft, recording, gitLog, store, iter, logStream, selVars, envVars>>

\* a running agent of p, a process of its own, reads tasks.json
AgentRead(p) ==
    /\ wsFile[p].on
    /\ \E r \in Runs : loop[r].proj = p /\ (procs[r].exec.alive \/ procs[r].review.alive)
    /\ wsFile' = [wsFile EXCEPT ![p].seen = wsFile[p].state]
    /\ UNCHANGED <<settings, orchCap, projects, status, tasks, activeProjects, ost,
                   runsUsed, loop, procs, workspace, commits, invocations,
                   startResult, capPhase, spawnsLeft, recording, gitLog, store, iter, logStream, selVars, envVars>>

\* One project with its workspace set up by 'project:create' and tasks.json
\* as the last 'task:create' synced it.
WsInitWith(ts, spawns) ==
    /\ settings \in [maxParallelProjects : {DefaultMaxParallelProjects},
                     maxTaskAttempts : {1}]
    /\ projects = {"p1"}
    /\ tasks = [p \in Projects |-> IF p = "p1" THEN ts ELSE <<>>]
    /\ spawnsLeft = spawns
    /\ recording = FALSE
    /\ gitLog = [p \in Projects |-> GitOff]
    /\ orchCap = settings.maxParallelProjects
    /\ status = [p \in Projects |-> "idle"]
    /\ activeProjects = [p \in Projects |-> NoRun]
    /\ ost = [r \in Runs |-> UnusedOst]
    /\ runsUsed = 0
    /\ loop = [r \in Runs |-> UnusedLoop]
    /\ procs = [r \in Runs |-> UnusedProcs]
    /\ workspace = [p \in Projects |-> p = "p1"]
    /\ commits = [p \in Projects |-> 0]
    /\ invocations = [p \in Projects |-> [i \in 1..MaxTasks |-> 0]]
    /\ startResult = [proj |-> "-", ok |-> FALSE, why |-> "none"]
    /\ capPhase = "none"
    /\ selTasks = <<>>
    /\ selResult = NoTask
    /\ repos = ReposAtRest
    /\ store = StoreAtStart(FALSE, status, tasks)
    /\ logStream = LogOff
    /\ fnResult = NoCall
    /\ fnInput = NoCall
    /\ iter = IterOff
    /\ wsFile = [p \in Projects |->
                    IF p = "p1"
                    THEN [on |-> TRUE, state |-> "whole", tasks |-> WorkspaceTasks(tasks[p]),
                          writing |-> FALSE, seen |-> "none"]
                    ELSE WsOff]

\* two tasks, and an external writer of tasks.json
WsInit == WsInitWith(<<NewTask(1, 1), NewTask(2, 0)>>, 2)

WsNext ==
    \/ Next
    \/ \E p \in Projects : ExternalWrite(p)

WsSpec == WsInit /\ [][WsNext]_vars

\* one task, 'project:syncTasks' and the agents reading tasks.json
FileInit == WsInitWith(<<NewTask(1, 0)>>, 1)

\* while the main process is inside writeFileSync none of its handlers runs
FileNext ==
    \/ \E p \in Projects : ~Writing /\ StartProject(p)
    \/ \E p \in Projects : ~Writing /\ StopProject(p)
    \/ \E p \in Projects : ~Writing /\ PauseProject(p)
    \/ \E p \in Projects : ~Writing /\ ResumeProject(p)
    \/ \E r \in Runs : ~Writing /\ SetupReturn(r)
    \/ \E r \in Runs : ~Writing /\ ExecExit(r)
    \/ \E r \in Runs : ~Writing /\ ReviewExit(r)
    \/ \E r \in Runs : ~Writing /\ DelayReturn(r)
    \/ \E p \in Projects : SyncTasksOpen(p)
    \/ \E p \in Projects : SyncTasksWrite(p)
    \/ \E p \in Projects : AgentRead(p)

FileSpec == FileInit /\ [][FileNext]_vars

\* a step in which run r selects a task and starts to work on it
Selects(r) ==
    /\ loop[r].pc \in {"clone", "delay"}
    /\ loop'[r].pc = "waitExec"

\* C21: every task selection follows tasks.json as it is at that moment:
\* the task the loop starts to work on is the one getNextTask yields on the
\* file's content, also after an external writer replaced the file.
C21_SelectionFollowsTasksJson ==
    [][\A r \in Runs :
          (Selects(r) /\ wsFile[loop[r].proj].on /\ wsFile[loop[r].proj].state = "whole") =>
              loop'[r].task = GetNextTask(wsFile[loop[r].proj].tasks)]_vars

\* C29: a reader of tasks.json never observes an empty or partly written file.
C29_ReaderSeesWholeFile ==
    \A p \in Projects : wsFile[p].seen \notin {"empty", "partial"}

\* ------------------------------------------------------- loop passes

MaxIterationsSetting == 2

\* One project with 1..MaxTasks tasks and a maxIterations of 1..MaxIterationsSetting,
\* the passes of each run counted.
IterInit ==
    /\ settings \in [maxParallelProjects : {DefaultMaxParallelProjects},
                     maxTaskAttempts : {1}]
    /\ projects = {"p1"}
    /\ tasks \in [Projects -> InitTaskLists]
    /\ tasks["p1"] # <<>> /\ tasks["p2"] = <<>>
    /\ spawnsLeft = MaxSpawns
    /\ recording = FALSE
    /\ gitLog = [p \in Projects |-> GitOff]
    /\ InitRest
    /\ repos = ReposAtRest
    /\ store = StoreAtStart(FALSE, status, tasks)
    /\ logStream = LogOff
    /\ fnResult = NoCall
    /\ fnInput = NoCall
    /\ wsFile = [p \in Projects |-> WsOff]
    /\ \E m \in 1..MaxIterationsSetting :
         iter = [on |-> TRUE, max |-> [p \in Projects |-> IF p = "p1" THEN m ELSE 0],
                 passes |-> [r \in Runs |-> 0]]

IterSpec == IterInit /\ [][Next]_vars

\* C22: the passes a run makes through the loop of its project never exceed
\* the project's maxIterations.
C22_PassesWithinMaxIterations ==
    \A r \in Runs :
        (iter.on /\ loop[r].pc # "unused") => iter.passes[r] <= iter.max[loop[r].proj]

\* ---------------------------------------------------- project deletion

\* ipc 'project:delete': StateManager.deleteProject splices the project, its
\* tasks included, out of the state; the orchestrator is not told.
DeleteProject(p) ==
    IF p \notin projects THEN UNCHANGED vars
    ELSE /\ projects' = projects \ {p}
         /\ tasks' = [tasks EXCEPT ![p] = <<>>]
         /\ status' = [status EXCEPT ![p] = "idle"]
         /\ store' = IF store.on THEN [store EXCEPT !.timer = TRUE] ELSE store
         /\ UNCHANGED <<settings, orchCap, activeProjects, ost, runsUsed, loop, procs,
                        workspace, commits, invocations, startResult, capPhase, spawnsLeft,
                        recording, gitLog, iter, selVars, wsFile, logStream, envVars>>

DeleteNext ==
    \/ Next
    \/ \E p \in Projects : DeleteProject(p)

\* Projects competing for the cap as in CapSpec, and deleted at any moment.
DeleteSpec == CapInit /\ [][DeleteNext]_vars

\* C23: once the run loop of a run has ended, for whatever reason, the run's
\* entry does not count as running for admission.
C23_EndedLoopHoldsNoSlot ==
    \A r \in Runs :
        loop[r].pc = "ended" =>
            ~(activeProjects[loop[r].proj] = r /\ ost[r].status = "running")

\* ------------------------------------------- parseProcessResult, verifyTask

\* every other variable, left alone by the steps of ParseSpec and VerifySpec
restVars == <<settings, orchCap, projects, status, tasks, activeProjects, ost, runsUsed,
              loop, procs, workspace, commits, invocations, startResult, capPhase,
              spawnsLeft, recording, gitLog, store, iter, wsFile, logStream, selVars, repos>>

\* the orchestrator at rest, with no project
RestInit ==
    /\ settings = [maxParallelProjects |-> DefaultMaxParallelProjects, maxTaskAttempts |-> 1]
    /\ projects = {}
    /\ tasks = [p \in Projects |-> <<>>]
    /\ spawnsLeft = 0
    /\ recording = FALSE
    /\ gitLog = [p \in Projects |-> GitOff]
    /\ InitRest
    /\ repos = ReposAtRest
    /\ store = StoreAtStart(FALSE, status, tasks)
    /\ logStream = LogOff
    /\ iter = IterOff
    /\ wsFile = [p \in Projects |-> WsOff]

\* the marker texts an execution agent's output may hold
ExecMarkers == {"TASK_COMPLETE", "DONE", "Task completed", "TASK_BLOCKED", "BLOCKED"}

\* what ClaudeProcess.status is when waitForProcess resolves
ProcStatuses == {"completed", "failed", "stopped"}

ParseInit ==
    /\ RestInit
    /\ fnInput \in [called : {TRUE}, output : SUBSET ExecMarkers, status : ProcStatuses]
    /\ fnResult = NoCall

Parse ==
    /\ ~fnResult.called
    /\ fnResult' = [called |-> TRUE,
                    result |-> ParseProcessResult(fnInput.output, fnInput.status)]
    /\ UNCHANGED <<restVars, fnInput>>

ParseSpec == ParseInit /\ [][Parse]_vars

\* the marker texts a review agent's output may hold
ReviewMarkers == {"VERIFICATION_PASSED", "VERIFICATION_FAILED", "looks good", "verified"}

\* Verifier.verifyTask on the result of runTests and the review agent's output
VerifyTask(test, out) ==
    LET reviewPassed == ReviewPassed(out) IN
    [passed |-> VerifyPassed(test, reviewPassed),
     testsRan |-> test.ran, testsPassed |-> test.passed, reviewPassed |-> reviewPassed]

VerifyInit ==
    /\ RestInit
    /\ fnInput \in [called : {TRUE}, test : TestResults, output : SUBSET ReviewMarkers,
                    code : ExitCodes]
    /\ fnResult = NoCall

Verify ==
    /\ ~fnResult.called
    /\ fnResult' = [called |-> TRUE, result |-> VerifyTask(fnInput.test, fnInput.output)]
    /\ UNCHANGED <<restVars, fnInput>>

VerifySpec == VerifyInit /\ [][Verify]_vars

\* C24: taskBlocked is true exactly when the output contains TASK_BLOCKED or
\* BLOCKED; taskComplete is true exactly when the output contains
\* TASK_COMPLETE and taskBlocked is false; the two are never both true.
C24_SignalsParsed ==
    fnResult.called =>
        LET out == fnInput.output
            res == fnResult.result
        IN  /\ res.taskBlocked = ("TASK_BLOCKED" \in out \/ "BLOCKED" \in out)
            /\ res.taskComplete = ("TASK_COMPLETE" \in out /\ ~res.taskBlocked)
            /\ ~(res.taskComplete /\ res.taskBlocked)

\* C26: the Verifier's decision is passed = (tests did not run or tests
\* passed) and the review passed; failing tests fail the verification even
\* when the self-review passes.
C26_VerifierDecision ==
    fnResult.called =>
        LET res == fnResult.result IN
        /\ res.passed = ((~res.testsRan \/ res.testsPassed) /\ res.reviewPassed)
        /\ (fnInput.test.ran /\ ~fnInput.test.passed) => ~res.passed

\* the tests ran and failed, the review passed, and the verification failed
C26_FailingTestsOverrideReview ==
    /\ fnResult.called
    /\ fnInput.test.ran /\ ~fnInput.test.passed
    /\ "VERIFICATION_PASSED" \in fnInput.output
    /\ fnResult.result.reviewPassed
    /\ ~fnResult.result.passed

\* C37: a self-review whose output contains VERIFICATION_FAILED is not
\* recorded as passed, whatever else the output contains (VERIFICATION_PASSED,
\* a lenient phrase).
C37_FailedVerdictNeverPasses ==
    (fnResult.called /\ "VERIFICATION_FAILED" \in fnInput.output) =>
        ~fnResult.result.reviewPassed

\* ------------------------------------------- a review agent that crashes

\* The review agent dies on every invocation: a non-zero exit code and no
\* verdict in its output; no stop, pause or resume.
ReviewCrash(r) == ReviewExitWith(r, {{}}, {1})

CrashNext ==
    \/ \E p \in Projects : StartProject(p)
    \/ \E r \in Runs : SetupReturn(r)
    \/ \E r \in Runs : ExecExit(r)
    \/ \E r \in Runs : ReviewCrash(r)
    \/ \E r \in Runs : DelayReturn(r)

CrashSpec == LiveInit /\ [][CrashNext]_vars

\* C25: once stopProcess has cancelled an agent, the agent's recorded status
\* stays stopped, whatever exit code the killed process reports; the outcome
\* handed to the waiter, taken from that status, is therefore not a success.
C25_StoppedStaysStopped ==
    [][\A r \in Runs : \A k \in {"exec", "review"} :
          procs[r][k].status = "stopped" =>
              /\ procs'[r][k].status = "stopped"
              /\ ~ParseProcessResult({}, procs'[r][k].status).success]_vars

\* C27: a self-review subprocess that exits abnormally without a verdict is
\* a failed review: where every review agent dies that way, no verification
\* marks a task done.
C27_CrashedReviewIsFailedReview ==
    \A p \in Projects : \A i \in 1..Len(tasks[p]) : tasks[p][i].status # "done"

\* C28: the in-memory snapshot is replaced from disk only after an external
\* modification: the watcher's callback for a write of the manager itself
\* (no other writer exists) replaces nothing in memory, so that no mutation
\* made after the write is discarded.
C28_OwnWriteReloadsNothing ==
    [][(store.on /\ store.event /\ ~store'.event) =>
          (tasks' = tasks /\ status' = status)]_vars

\* ------------------------------------------ repositories and projects

\* saveState after a mutation of the catalog: the 100 ms timer is (re)armed
Scheduled == IF store.on THEN [store EXCEPT !.timer = TRUE] ELSE store

\* StateManager.createRepository: a repository with a fresh uuid
CreateRepository ==
    /\ \E id \in RepositoryIds \ (repos.repositories \cup repos.deleted) :
         repos' = [repos EXCEPT !.repositories = @ \cup {id}]
    /\ store' = Scheduled
    /\ UNCHANGED <<settings, orchCap, projects, status, tasks, activeProjects, ost,
                   runsUsed, loop, procs, workspace, commits, invocations, startResult,
                   capPhase, spawnsLeft, recording, gitLog, iter, wsFile, logStream, selVars,
                   fnInput, fnResult>>

\* StateManager.deleteRepository(id): throws when a project refers to id,
\* returns false when there is no such repository, else removes it
DeleteRepository(id) ==
    IF \E p \in projects : repos.repositoryId[p] = id THEN UNCHANGED vars
    ELSE IF id \notin repos.repositories THEN UNCHANGED vars
    ELSE /\ repos' = [repos EXCEPT !.repositories = @ \ {id}, !.deleted = @ \cup {id}]
         /\ store' = Scheduled
         /\ UNCHANGED <<settings, orchCap, projects, status, tasks, activeProjects, ost,
                        runsUsed, loop, procs, workspace, commits, invocations, startResult,
                        capPhase, spawnsLeft, recording, gitLog, iter, wsFile, logStream, selVars,
                        fnInput, fnResult>>

\* StateManager.createProject(input): a project with a fresh uuid, the
\* repositoryId taken from the input as it is
CreateProject(p, id) ==
    /\ p \notin projects
    /\ projects' = projects \cup {p}
    /\ status' = [status EXCEPT ![p] = "idle"]
    /\ tasks' = [tasks EXCEPT ![p] = <<>>]
    /\ repos' = [repos EXCEPT !.repositoryId[p] = id]
    /\ store' = Scheduled
    /\ UNCHANGED <<settings, orchCap, activeProjects, ost,
                   runsUsed, loop, procs, workspace, commits, invocations, startResult,
                   capPhase, spawnsLeft, recording, gitLog, iter, wsFile, logStream, selVars,
                   fnInput, fnResult>>

\* an empty catalog: no repository, no project
RepoInit ==
    /\ settings = [maxParallelProjects |-> DefaultMaxParallelProjects, maxTaskAttempts |-> 1]
    /\ projects = {}
    /\ tasks = [p \in Projects |-> <<>>]
    /\ spawnsLeft = 0
    /\ recording = FALSE
    /\ gitLog = [p \in Projects |-> GitOff]
    /\ InitRest
    /\ repos = [repositories |-> {}, repositoryId |-> [p \in Projects |-> NoRepository],
                deleted |-> {}]
    /\ store = StoreAtStart(FALSE, status, tasks)
    /\ logStream = LogOff
    /\ iter = IterOff
    /\ wsFile = [p \in Projects |-> WsOff]
    /\ fnInput = NoCall
    /\ fnResult = NoCall

RepoNext ==
    \/ CreateRepository
    \/ \E id \in RepositoryIds : DeleteRepository(id)
    \/ \E p \in Projects : \E id \in RepositoryIds : CreateProject(p, id)
    \/ \E p \in Projects : DeleteProject(p)

RepoSpec == RepoInit /\ [][RepoNext]_vars

\* C30: a repository is removed only when no project refers to it, and so,
\* after any sequence of createRepository, createProject, deleteProject and
\* deleteRepository, no project refers to a repository that was deleted.
C30_NoProjectOfDeletedRepository ==
    /\ [](\A p \in projects : repos.repositoryId[p] \notin repos.deleted)
    /\ [][\A id \in RepositoryIds :
            (id \in repos.repositories /\ id \notin repos'.repositories) =>
                \A p \in projects : repos.repositoryId[p] # id]_vars

\* --------------------------------------------------------------- pause

\* pause(p) has returned and p was not started again: the entry of p is paused
PausedEntry(p) ==
    /\ activeProjects[p] # NoRun
    /\ ost[activeProjects[p]].status = "paused"

\* a step in which run r spawns an execution agent or a self-review agent
SpawnsAgent(r) ==
    \/ procs'[r].exec.alive /\ ~procs[r].exec.alive
    \/ procs'[r].review.alive /\ ~procs[r].review.alive

\* C33: while the entry of a project is paused (pause has returned and the
\* project was not started again), no loop of the project spawns an
\* execution or self-review agent and none selects a task; an agent already
\* running may exit.
C33_PausedLoopSpawnsNothing ==
    [][\A p \in Projects : PausedEntry(p) =>
          \A r \in Runs : loop[r].proj = p =>
              /\ ~SpawnsAgent(r)
              /\ ~Selects(r)
              /\ loop'[r].task # loop[r].task => loop'[r].task = NoTask]_vars

\* the execution agent that was running when pause returned has exited, and
\* its outcome was dropped: no log, no verification, the loop has returned
C33_AgentEndedWhilePaused ==
    \E r \in Runs :
        LET p == loop[r].proj IN
        /\ loop[r].pc = "ended"
        /\ p \in projects
        /\ PausedEntry(p) /\ activeProjects[p] = r
        /\ status[p] = "paused"
        /\ procs[r].exec.status = "completed"
        /\ tasks[p][1].status = "in_progress"
        /\ tasks[p][1].logsOk = 0 /\ tasks[p][1].logsFail = 0

\* ----------------------------------------------------------- task logs

\* the log entries of task i of project p in the task lists tk
LogCount(tk, p, i) == tk[p][i].logsOk + tk[p][i].logsFail

\* a step in which workOnTask of run r returns to the loop after an attempt
\* whose execution agent was not stopped
AttemptOver(r) ==
    /\ loop'[r].pc = "delay"
    /\ \/ /\ loop[r].pc = "waitExec"
          /\ procs[r].exec.status = "running"
          /\ procs'[r].exec.status \in {"completed", "failed"}
       \/ /\ loop[r].pc = "waitReview"
          /\ procs[r].exec.status \in {"completed", "failed"}

\* C34: an attempt whose execution agent ran to its own end has appended
\* exactly one log entry to its task when workOnTask returns, also when the
\* project was paused meanwhile; and no task has more log entries than attempts.
C34_OneLogPerAttempt ==
    /\ [][\A r \in Runs : AttemptOver(r) =>
            LET p == loop[r].proj
                i == FindIndex(tasks[p], loop[r].task)
            IN  (i # 0 /\ i <= Len(tasks'[p])) =>
                    LogCount(tasks', p, i) = LogCount(tasks, p, i) + 1]_vars
    /\ [](\A p \in Projects : \A i \in 1..Len(tasks[p]) :
            LogCount(tasks, p, i) <= tasks[p][i].attempts)

\* ------------------------------------------------- agents and the cap

\* Two projects with one task each under a cap of one; each may spawn its agent.
AgentsInit ==
    /\ settings = [maxParallelProjects |-> 1, maxTaskAttempts |-> 1]
    /\ projects = {"p1", "p2"}
    /\ tasks = [p \in Projects |-> <<NewTask(1, 0)>>]
    /\ spawnsLeft = 2
    /\ recording = FALSE
    /\ gitLog = [p \in Projects |-> GitOff]
    /\ InitRest
    /\ repos = ReposAtRest
    /\ store = StoreAtStart(FALSE, status, tasks)
    /\ logStream = LogOff
    /\ fnResult = NoCall
    /\ fnInput = NoCall
    /\ iter = IterOff
    /\ wsFile = [p \in Projects |-> WsOff]

AgentsSpec == AgentsInit /\ [][Next]_vars

\* agent processes, of any project, that were spawned, have not exited and were not killed
AllRunningAgents ==
    { <<r, k>> \in Runs \X {"exec", "review"} :
        procs[r][k].alive /\ procs[r][k].status = "running" }

\* C35: the number of agent processes running at once, over all projects,
\* never exceeds maxParallelProjects, whatever starts, pauses and stops are
\* issued while the run loops are under way.
C35_AgentsWithinCap ==
    Cardinality(AllRunningAgents) <= settings.maxParallelProjects

\* ------------------------------------------------------ superseded runs

\* run r was stopped and its project has been started again: the entry of
\* the project belongs to a newer run
Superseded(r) ==
    /\ ost[r].status = "stopped"
    /\ loop[r].proj \in projects
    /\ activeProjects[loop[r].proj] \notin {NoRun, r}

\* C36: a step of a run loop that was stopped and then superseded by a new
\* start of its project changes neither the Project status nor the entry of
\* the new run; in particular a setup of the old run that fails after the
\* restart does not mark the new run failed.
C36_SupersededRunChangesNothing ==
    [][\A r \in Runs :
          (Superseded(r) /\ loop'[r] # loop[r]) =>
              /\ status'[loop[r].proj] = status[loop[r].proj]
              /\ ost'[activeProjects[loop[r].proj]] = ost[activeProjects[loop[r].proj]]]_vars

\* ------------------------------------------------------------ settings

\* StateManager.updateSettings({ maxParallelProjects: n })
UpdateSettings(n) ==
    /\ settings' = [settings EXCEPT !.maxParallelProjects = n]
    /\ store' = IF store.on /\ settings' # settings THEN [store EXCEPT !.timer = TRUE] ELSE store
    /\ UNCHANGED <<orchCap, projects, status, tasks, activeProjects, ost,
                   runsUsed, loop, procs, workspace, commits, invocations, startResult,
                   capPhase, spawnsLeft, recording, gitLog, iter, selVars, wsFile, logStream, envVars>>

SettingsNext ==
    \/ Next
    \/ \E n \in 1..MaxParallelSetting : UpdateSettings(n)

\* One or two projects, and a cap that updateSettings changes while they run.
SettingsSpec == CapInit /\ [][SettingsNext]_vars

\* C39: a start of a project that exists and has no entry is admitted
\* exactly when the number of running entries is below the value
\* settings.maxParallelProjects has at the time of the call, also after
\* updateSettings has changed it.
C39_StartUsesCurrentCap ==
    [][\A p \in projects :
          (StartProject(p) /\ startResult'.proj = p /\ activeProjects[p] = NoRun) =>
              (startResult'.ok <=> RunningCount < settings.maxParallelProjects)]_vars

\* ------------------------------------- another writer of the state file

\* Another process starts to rewrite state.json: the file is truncated, and
\* until the writer is done it cannot be parsed.
ExternalStateWriteBegin ==
    /\ store.on /\ store.readable
    /\ store' = [store EXCEPT !.readable = FALSE, !.event = store.watching]
    /\ UNCHANGED <<settings, orchCap, projects, status, tasks, activeProjects, ost,
                   runsUsed, loop, procs, workspace, commits, invocations, startResult,
                   capPhase, spawnsLeft, recording, gitLog, iter, selVars, wsFile, logStream, envVars>>

\* The other writer is done: the file holds again what it held.
ExternalStateWriteEnd ==
    /\ store.on /\ ~store.readable
    /\ store' = [store EXCEPT !.readable = TRUE, !.event = store.watching]
    /\ UNCHANGED <<settings, orchCap, projects, status, tasks, activeProjects, ost,
                   runsUsed, loop, procs, workspace, commits, invocations, startResult,
                   capPhase, spawnsLeft, recording, gitLog, iter, selVars, wsFile, logStream, envVars>>

\* One project with one task under the default settings, a watched state file.
ReloadInit ==
    /\ settings = DefaultState.rest.settings
    /\ projects = {"p1"}
    /\ tasks = [p \in Projects |-> IF p = "p1" THEN <<NewTask(1, 0)>> ELSE <<>>]
    /\ spawnsLeft = 1
    /\ recording = FALSE
    /\ gitLog = [p \in Projects |-> GitOff]
    /\ InitRest
    /\ repos = ReposAtRest
    /\ store = StoreAtStart(TRUE, status, tasks)
    /\ logStream = LogOff
    /\ fnResult = NoCall
    /\ fnInput = NoCall
    /\ iter = IterOff
    /\ wsFile = [p \in Projects |-> WsOff]

\* start calls, run loops and updateSettings; the timer, the watcher and
\* another writer of the state file
ReloadNext ==
    \/ \E p \in Projects : StartProject(p)
    \/ \E r \in Runs : LoopStep(r)
    \/ \E n \in 1..MaxParallelSetting : UpdateSettings(n)
    \/ SaveFire
    \/ WatchFire
    \/ ExternalStateWriteBegin
    \/ ExternalStateWriteEnd

ReloadSpec == ReloadInit /\ [][ReloadNext]_vars

\* C38: a reload by the watcher that finds state.json unreadable leaves the
\* projects and the repositories in memory as they were, and no later write
\* removes a project or a repository from the file (nothing is deleted in
\* these behaviours).
C38_UnreadableReloadKeepsCatalog ==
    /\ [][(store.event /\ ~store'.event /\ ~store.readable) =>
            /\ projects' = projects
            /\ repos'.repositories = repos.repositories]_vars
    /\ [][/\ store.rest.projects \subseteq store'.rest.projects
          /\ store.rest.repositories \subseteq store'.rest.repositories]_vars

\* ----------------------------------------------------------- log streams

\* One project with one task; the log streams of its agents are followed.
StreamInit ==
    /\ settings = [maxParallelProjects |-> DefaultMaxParallelProjects, maxTaskAttempts |-> 1]
    /\ projects = {"p1"}
    /\ tasks = [p \in Projects |-> IF p = "p1" THEN <<NewTask(1, 0)>> ELSE <<>>]
    /\ spawnsLeft = 1
    /\ recording = FALSE
    /\ gitLog = [p \in Projects |-> GitOff]
    /\ InitRest
    /\ repos = ReposAtRest
    /\ store = StoreAtStart(FALSE, status, tasks)
    /\ logStream = [LogOff EXCEPT !.on = TRUE]
    /\ fnResult = NoCall
    /\ fnInput = NoCall
    /\ iter = IterOff
    /\ wsFile = [p \in Projects |-> WsOff]

StreamSpec == StreamInit /\ [][Next]_vars

\* C40: the log stream of an agent process is never ended twice, nothing is
\* written to it after its end, and once the process is over (it exited or
\* was stopped) its stream has been ended; whatever the order of stopProcess
\* and the exit event.
C40_LogStreamClosedOnce ==
    \A r \in Runs : \A k \in {"exec", "review"} :
        LET st == logStream.of[r][k] IN
        /\ st.ends <= 1
        /\ ~st.late
        /\ (logStream.on /\ procs[r][k].status \in {"completed", "failed", "stopped"}) =>
               st.ends = 1

====
